---- MODULE Spec2Model ----
(***************************************************************************)
(* Model of the Vuex root store of DuetWebControl (src/unnamed/part_000):  *)
(* the connect / disconnect / sendCode actions and the mutations they      *)
(* commit.  Every async action is split at its single await: the code      *)
(* before the await is one step (the call), the code after it is another   *)
(* (the resume).  JavaScript runs each of these segments to completion, so *)
(* other actions interleave only at the awaits.                            *)
(***************************************************************************)
EXTENDS Integers, Sequences, FiniteSets, TLC

\* ---------------------------------------------------------------- bounds
MaxTasks == 2

Tasks == 1..MaxTasks

\* hostnames that callers pass; 'default' is the reserved factory-default machine
Hosts == {"default", "a", "b"}

VARIABLES
    state,      \* the Vuex root state: isConnecting, isDisconnecting, selectedMachine,
                \* machines (keys of state.machines) and ui (hostnames held by the ui module)
    tasks,      \* the action invocations suspended at their await (a call that
                \* ends before its await never occupies one)
    last        \* what the most recent step did (observable effects of that step)

vars == <<state, tasks, last>>

\* ------------------------------------------------------------- mutations
setConnecting(s, connecting) == [s EXCEPT !.isConnecting = connecting]

setDisconnecting(s, disconnecting) == [s EXCEPT !.isDisconnecting = disconnecting]

\* addMachine dropping the machines that were connected before
addMachineReplace(s, hostname) == [s EXCEPT !.machines = {"default", hostname}]

addMachine(s, hostname) == [s EXCEPT !.machines = @ \cup {hostname}]

uiAddMachine(s, hostname) == [s EXCEPT !.ui = @ \cup {hostname}]

removeMachine(s, hostname) == [s EXCEPT !.machines = @ \ {hostname}]

setSelectedMachine(s, selectedMachine) == [s EXCEPT !.selectedMachine = selectedMachine]


\* ------------------------------------------------ one synchronous segment
\* A segment of an action (the code between two awaits) is evaluated on a
\* record x: the state it has reached, the states that every commit of the
\* segment left behind (in order), the Logger.logGlobal levels, the
\* this.$log levels, the Logger.logCode keys, and how the segment ended.
Start(s) ==
    [state |-> s, trans |-> <<>>, notes |-> <<>>, logs |-> <<>>,
     codeLog |-> <<>>, ret |-> "resolved"]

Commit(x, s2) == [x EXCEPT !.state = s2, !.trans = Append(@, s2)]

logGlobal(x, level) == [x EXCEPT !.notes = Append(@, level)]

log(x, level) == [x EXCEPT !.logs = Append(@, level)]

logCode(x, hostname) == [x EXCEPT !.codeLog = Append(@, hostname)]

Throw(x, e) == [x EXCEPT !.ret = e]

\* ----------------------------------------------------------------- connect
\* connect without its isConnecting check
ConnectCheckNoGate(s, hostname) ==
    IF hostname = "default" THEN "ReservedHostname"
    ELSE IF hostname \in s.machines THEN "AlreadyConnected"
    ELSE "admitted"

\* connect checking isConnecting before the hostname
ConnectCheckGateFirst(s, hostname) ==
    IF s.isConnecting THEN "AlreadyConnecting"
    ELSE IF hostname = "default" THEN "ReservedHostname"
    ELSE IF hostname \in s.machines THEN "AlreadyConnected"
    ELSE "admitted"

\* connect without its check of the registry
ConnectCheckNoRegistry(s, hostname) ==
    IF hostname = "default" THEN "ReservedHostname"
    ELSE IF s.isConnecting THEN "AlreadyConnecting"
    ELSE "admitted"

\* the three admission checks of connect, in the order of the code
ConnectCheck(s, hostname) ==
    IF hostname = "default" THEN "ReservedHostname"
    ELSE IF hostname \in s.machines THEN "AlreadyConnected"
    ELSE IF s.isConnecting THEN "AlreadyConnecting"
    ELSE "admitted"

\* the try block without setSelectedMachine
ConnectSuccessNoSelect(s, hostname) ==
    LET x1 == Commit(Start(s), addMachine(s, hostname))
        x2 == Commit(x1, uiAddMachine(x1.state, hostname))
    IN  logGlobal(x2, "success")

\* the try block after the handshake resolved
ConnectSuccess(s, hostname) ==
    LET x1 == Commit(Start(s), addMachine(s, hostname))
        x2 == Commit(x1, uiAddMachine(x1.state, hostname))
        x3 == Commit(x2, setSelectedMachine(x2.state, hostname))
    IN  logGlobal(x3, "success")

\* the catch block raising the failure again after reporting it
ConnectFailureRethrow(s, hostname) == Throw(logGlobal(Start(s), "error"), "ConnectError")

\* the catch block after the handshake rejected
ConnectFailure(s, hostname) == logGlobal(Start(s), "error")

\* connect with setConnecting(false) at the end of the try block
ConnectResumedClearInTry(s, hostname, handshake) ==
    IF handshake = "resolved"
    THEN LET x == ConnectSuccess(s, hostname) IN Commit(x, setConnecting(x.state, FALSE))
    ELSE ConnectFailure(s, hostname)

\* connect without the final setConnecting(false)
ConnectResumedNoClear(s, hostname, handshake) ==
    IF handshake = "resolved" THEN ConnectSuccess(s, hostname)
                              ELSE ConnectFailure(s, hostname)

\* everything connect does after its await
ConnectResumed(s, hostname, handshake) ==
    LET x == IF handshake = "resolved" THEN ConnectSuccess(s, hostname)
                                       ELSE ConnectFailure(s, hostname)
    IN  Commit(x, setConnecting(x.state, FALSE))

\* -------------------------------------------------------------- disconnect
\* the payloads a caller passes to disconnect: none at all, or a hostname
\* with doDisconnect (true when left out)
DisconnectPayloads ==
    {[given |-> FALSE]} \cup [given : {TRUE}, hostname : Hosts, doDisconnect : BOOLEAN]

\* the default parameter of disconnect
DisconnectArgs(s, payload) ==
    IF payload.given
    THEN [hostname |-> payload.hostname, doDisconnect |-> payload.doDisconnect]
    ELSE [hostname |-> s.selectedMachine, doDisconnect |-> TRUE]

\* disconnect without its check of the reserved hostname
DisconnectCheckNoReserved(s, hostname) ==
    IF hostname \notin s.machines THEN "AlreadyDisconnected" ELSE "admitted"

\* disconnect without its check of the registry
DisconnectCheckNoRegistry(s, hostname) ==
    IF hostname = "default" THEN "ReservedHostname" ELSE "admitted"

\* the two admission checks of disconnect
DisconnectCheck(s, hostname) ==
    IF hostname = "default" THEN "ReservedHostname"
    ELSE IF hostname \notin s.machines THEN "AlreadyDisconnected"
    ELSE "admitted"

\* disconnect with setDisconnecting(false) at the end of the try block
DisconnectTeardownClearInTry(s, hostname, teardown) ==
    IF teardown = "resolved"
    THEN LET x == logGlobal(Start(s), "success") IN Commit(x, setDisconnecting(x.state, FALSE))
    ELSE logGlobal(Start(s), "warning")

\* the try/catch around the teardown and the release of the flag after it
DisconnectTeardown(s, hostname, teardown) ==
    LET x == logGlobal(Start(s), IF teardown = "resolved" THEN "success" ELSE "warning")
    IN  Commit(x, setDisconnecting(x.state, FALSE))

\* disconnect committing removeMachine before it reselects 'default'
DisconnectTailRemoveFirst(x, hostname, vuexThrows) ==
    LET x2 == IF hostname \in x.state.machines
              THEN Commit(x, removeMachine(x.state, hostname))
              ELSE IF vuexThrows THEN Throw(x, "TypeError") ELSE x
    IN  IF x2.state.selectedMachine = hostname /\ x2.ret = "resolved"
        THEN Commit(x2, setSelectedMachine(x2.state, "default"))
        ELSE x2

\* unregister, reselect and removeMachine.  Unregistering a module that is
\* not registered is outside what Vuex defines: depending on the Vuex build
\* unregisterModule raises a TypeError or returns (vuexThrows).
DisconnectTail(x, hostname, vuexThrows) ==
    LET x2 == IF x.state.selectedMachine = hostname
              THEN Commit(x, setSelectedMachine(x.state, "default"))
              ELSE x
    IN  IF hostname \in x2.state.machines
        THEN Commit(x2, removeMachine(x2.state, hostname))
        ELSE IF vuexThrows THEN Throw(x2, "TypeError") ELSE x2

\* disconnect committing setDisconnecting(true) before it tests doDisconnect
DisconnectAdmittedFlagFirst(s, hostname, doDisconnect, vuexThrows) ==
    LET x == Commit(Start(s), setDisconnecting(s, TRUE))
    IN  IF doDisconnect THEN Throw(x, "pending")
        ELSE DisconnectTail(x, hostname, vuexThrows)

\* disconnect past its checks, up to its await or, when doDisconnect is
\* false, to its end: with doDisconnect setDisconnecting(true) and the
\* teardown is awaited ("pending"), else unregister, reselect, removeMachine
DisconnectAdmitted(s, hostname, doDisconnect, vuexThrows) ==
    IF doDisconnect
    THEN Throw(Commit(Start(s), setDisconnecting(s, TRUE)), "pending")
    ELSE DisconnectTail(Start(s), hostname, vuexThrows)

\* ---------------------------------------------------------------- sendCode
\* what the dispatch of machines/<hostname>/sendCode can end with
SendOutcomes == {"resolved", "DisconnectedError", "CodeBufferError", "CodeResponseError"}

\* sendCode logging a DisconnectedError like any other error
SendCodeResumedLogAll(s, hostname, outcome) ==
    IF outcome = "resolved" THEN logCode(Start(s), hostname)
    ELSE Throw(log(Start(s), IF outcome = "CodeBufferError" THEN "warning" ELSE "error"), outcome)

\* sendCode keying the command log by the machine selected at the response
SendCodeResumedLogSelected(s, hostname, outcome) ==
    IF outcome = "resolved" THEN logCode(Start(s), s.selectedMachine)
    ELSE IF outcome # "DisconnectedError"
         THEN Throw(log(Start(s), IF outcome = "CodeBufferError" THEN "warning" ELSE "error"), outcome)
         ELSE Throw(Start(s), outcome)

\* everything sendCode does after its await: the command log on a response,
\* the classification of the error and the rethrow otherwise
SendCodeResumed(s, hostname, outcome) ==
    IF outcome = "resolved" THEN logCode(Start(s), hostname)
    ELSE IF outcome # "DisconnectedError"
         THEN Throw(log(Start(s), IF outcome = "CodeBufferError" THEN "warning" ELSE "error"), outcome)
         ELSE Throw(Start(s), outcome)

\* ------------------------------------------------------------------- steps
\* A task: where it is suspended, its hostname, whether that hostname was
\* the selected machine at the call and, for a disconnect, whether the
\* machine it was admitted for has been removed from the registry since.
Idle == [pc |-> "idle", hostname |-> "default", selected |-> FALSE, stale |-> FALSE]

\* removeMachine(hostname) discards the machine that the suspended
\* disconnects of hostname were admitted for
Discarded(ts, hostname) ==
    [u \in Tasks |->
        IF ts[u].pc = "disconnect" /\ ts[u].hostname = hostname
        THEN [ts[u] EXCEPT !.stale = TRUE]
        ELSE ts[u]]

\* the record of a step: the action, the segment ("call" up to the await,
\* "resume" after it), its hostname, whether the action was called without
\* a payload, whether the live teardown was asked for, whether the hostname
\* was the selected one when the action was called, how the awaited
\* operation ended ("none" for a call), and what the segment did
Step(op, phase, hostname, noArgs, live, selected, outcome, x) ==
    [op |-> op, phase |-> phase, hostname |-> hostname, noArgs |-> noArgs,
     live |-> live, selected |-> selected, outcome |-> outcome,
     ret |-> x.ret, trans |-> x.trans, notes |-> x.notes,
     logs |-> x.logs, codeLog |-> x.codeLog]

Init ==
    /\ state = [isConnecting |-> FALSE, isDisconnecting |-> FALSE,
                selectedMachine |-> "default", machines |-> {"default"}, ui |-> {}]
    /\ tasks = [t \in Tasks |-> Idle]
    /\ last = Step("init", "call", "default", FALSE, FALSE, FALSE, "none", Start(state))

\* The task of a call.  A call that suspends at its await takes the first
\* idle task; a call that ends before its await takes none and is counted
\* for the first task.
Takes(t, suspends) ==
    IF suspends
    THEN tasks[t].pc = "idle" /\ \A u \in Tasks : u < t => tasks[u].pc # "idle"
    ELSE t = 1

\* connect up to its await: the checks, then setConnecting(true)
ConnectCall(t, hostname) ==
    /\ LET chk == ConnectCheck(state, hostname)
           sel == state.selectedMachine = hostname
       IN  IF chk # "admitted"
           THEN /\ Takes(t, FALSE)
                /\ UNCHANGED <<state, tasks>>
                /\ last' = Step("connect", "call", hostname, FALSE, FALSE, sel, "none",
                                Throw(Start(state), chk))
           ELSE LET x == Commit(Start(state), setConnecting(state, TRUE))
                IN  /\ Takes(t, TRUE)
                    /\ state' = x.state
                    /\ tasks' = [tasks EXCEPT ![t] = [pc |-> "connect", hostname |-> hostname,
                                                      selected |-> sel, stale |-> FALSE]]
                    /\ last' = Step("connect", "call", hostname, FALSE, FALSE, sel, "none",
                                    Throw(x, "pending"))

\* connect from the end of the handshake to its end
ConnectResume(t, handshake) ==
    /\ tasks[t].pc = "connect"
    /\ LET x == ConnectResumed(state, tasks[t].hostname, handshake)
       IN  /\ state' = x.state
           /\ tasks' = [tasks EXCEPT ![t] = Idle]
           /\ last' = Step("connect", "resume", tasks[t].hostname, FALSE, FALSE,
                           tasks[t].selected, handshake, x)

\* disconnect up to its await, or to its end when doDisconnect is false
DisconnectCall(t, payload, vuexThrows) ==
    /\ LET args == DisconnectArgs(state, payload)
           hostname == args.hostname
           chk == DisconnectCheck(state, hostname)
           sel == state.selectedMachine = hostname
       IN  IF chk # "admitted"
           THEN /\ Takes(t, FALSE)
                /\ UNCHANGED <<state, tasks>>
                /\ last' = Step("disconnect", "call", hostname, ~payload.given, args.doDisconnect,
                                sel, "none", Throw(Start(state), chk))
           ELSE LET x == DisconnectAdmitted(state, hostname, args.doDisconnect, vuexThrows)
                IN  /\ Takes(t, x.ret = "pending")
                    /\ state' = x.state
                    /\ tasks' = IF x.ret = "pending"
                                THEN [tasks EXCEPT ![t] = [pc |-> "disconnect",
                                                           hostname |-> hostname,
                                                           selected |-> sel,
                                                           stale |-> FALSE]]
                                ELSE Discarded(tasks, hostname)
                    /\ last' = Step("disconnect", "call", hostname, ~payload.given,
                                    args.doDisconnect, sel, "none", x)

\* disconnect from the end of the teardown to its end
DisconnectResume(t, teardown, vuexThrows) ==
    /\ tasks[t].pc = "disconnect"
    /\ LET hostname == tasks[t].hostname
           x == DisconnectTail(DisconnectTeardown(state, hostname, teardown), hostname, vuexThrows)
       IN  /\ state' = x.state
           /\ tasks' = Discarded([tasks EXCEPT ![t] = Idle], hostname)
           /\ last' = Step("disconnect", "resume", hostname, FALSE, TRUE, tasks[t].selected,
                           teardown, x)

\* sendCode up to its await: the selected machine is read and the code dispatched
SendCodeCall(t) ==
    /\ Takes(t, TRUE)
    /\ tasks' = [tasks EXCEPT ![t] = [pc |-> "sendCode", hostname |-> state.selectedMachine,
                                      selected |-> TRUE, stale |-> FALSE]]
    /\ UNCHANGED state
    /\ last' = Step("sendCode", "call", state.selectedMachine, FALSE, FALSE, TRUE, "none",
                    Throw(Start(state), "pending"))

\* sendCode from the response (or the error) to its end
SendCodeResume(t, outcome) ==
    /\ tasks[t].pc = "sendCode"
    /\ LET x == SendCodeResumed(state, tasks[t].hostname, outcome)
       IN  /\ UNCHANGED state
           /\ tasks' = [tasks EXCEPT ![t] = Idle]
           /\ last' = Step("sendCode", "resume", tasks[t].hostname, FALSE, FALSE, TRUE, outcome, x)

Next ==
    \E t \in Tasks :
        \/ \E hostname \in Hosts : ConnectCall(t, hostname)
        \/ \E handshake \in {"resolved", "rejected"} : ConnectResume(t, handshake)
        \/ \E payload \in DisconnectPayloads, vuexThrows \in BOOLEAN :
               DisconnectCall(t, payload, vuexThrows)
        \/ \E teardown \in {"resolved", "rejected"}, vuexThrows \in BOOLEAN :
               DisconnectResume(t, teardown, vuexThrows)
        \/ SendCodeCall(t)
        \/ \E outcome \in SendOutcomes : SendCodeResume(t, outcome)

Spec == Init /\ [][Next]_vars

TypeOK ==
    /\ state.selectedMachine \in Hosts
    /\ state.machines \subseteq Hosts
    /\ state.ui \subseteq Hosts
    /\ state.isConnecting \in BOOLEAN
    /\ state.isDisconnecting \in BOOLEAN
    /\ \A t \in Tasks : tasks[t].pc \in {"idle", "connect", "disconnect", "sendCode"}


\* connect and disconnect alone: sendCode commits no mutation and has no
\* part in how a connect or a disconnect goes on
ConnectDisconnectNext ==
    \E t \in Tasks :
        \/ \E hostname \in Hosts : ConnectCall(t, hostname)
        \/ \E handshake \in {"resolved", "rejected"} : ConnectResume(t, handshake)
        \/ \E payload \in DisconnectPayloads, vuexThrows \in BOOLEAN :
               DisconnectCall(t, payload, vuexThrows)
        \/ \E teardown \in {"resolved", "rejected"}, vuexThrows \in BOOLEAN :
               DisconnectResume(t, teardown, vuexThrows)

\* the handshake or the teardown that task t awaits ends, and t resumes
AwaitEnds(t) ==
    \/ \E handshake \in {"resolved", "rejected"} : ConnectResume(t, handshake)
    \/ \E teardown \in {"resolved", "rejected"}, vuexThrows \in BOOLEAN :
           DisconnectResume(t, teardown, vuexThrows)

\* AwaitEnds(t) can happen exactly while task t is suspended in a connect
\* or in a disconnect
AwaitEndsEnabled(t) == tasks[t].pc \in {"connect", "disconnect"}

\* Every handshake and every teardown that an action awaits ends at some
\* time (resolved or rejected), and the suspended action then resumes: weak
\* fairness of AwaitEnds(t) for every task t.  WF_vars(AwaitEnds(t)) is
\* written out as []<>~ENABLED <<AwaitEnds(t)>>_vars \/ []<><<AwaitEnds(t)>>_vars
\* with AwaitEndsEnabled(t) for the ENABLED, which is what it amounts to.
FairSpec ==
    /\ Init /\ [][ConnectDisconnectNext]_vars
    /\ \A t \in Tasks : []<>(~AwaitEndsEnabled(t)) \/ []<><<AwaitEnds(t)>>_vars

\* AwaitEndsEnabled is the ENABLED of AwaitEnds
AwaitEndsEnabledOK == \A t \in Tasks : AwaitEndsEnabled(t) <=> ENABLED <<AwaitEnds(t)>>_vars

\* ========================================================== properties
Pending(op) == {t \in Tasks : tasks[t].pc = op}

\* the step just taken is a call of op that an admission check rejected
Rejected(l, op) == l.op = op /\ l.phase = "call" /\ l.ret \notin {"pending", "resolved"}

\* the step just taken ended an admitted op (normally or by raising)
Completed(l, op) ==
    /\ l.op = op
    /\ \/ l.phase = "resume"
       \/ l.phase = "call" /\ l.ret = "resolved"

\* C1: selectedMachine names a machine of the registry in every state, also
\* in the states that each commit of a step leaves behind (so disconnect
\* reselects 'default' before it removes the selected machine).
C1_SelectedRegistered ==
    /\ state.selectedMachine \in state.machines
    /\ \A i \in DOMAIN last.trans : last.trans[i].selectedMachine \in last.trans[i].machines

\* a disconnect of the selected machine has just reselected 'default' and
\* then removed the machine, while a sendCode is suspended
C1_Witness ==
    /\ Completed(last, "disconnect") /\ last.selected
    /\ Len(last.trans) >= 2
    /\ last.trans[Len(last.trans) - 1].selectedMachine = "default"
    /\ last.hostname \in last.trans[Len(last.trans) - 1].machines
    /\ last.hostname \notin state.machines
    /\ Pending("sendCode") # {}

\* C2: 'default' is in the registry in every state, and every connect or
\* disconnect whose hostname is 'default' is rejected with the reserved
\* hostname error without a commit, whatever the two flags are.
C2_DefaultKept ==
    [][ /\ "default" \in state.machines
        /\ "default" \in state'.machines
        /\ (last'.op \in {"connect", "disconnect"} /\ last'.phase = "call"
              /\ last'.hostname = "default")
           => (last'.ret = "ReservedHostname" /\ last'.trans = <<>>
                 /\ state' = state /\ tasks' = tasks) ]_vars

\* disconnect of 'default' has just been rejected while both flags were set
C2_Witness ==
    /\ Rejected(last, "disconnect") /\ last.hostname = "default"
    /\ last.ret = "ReservedHostname"
    /\ state.isConnecting /\ state.isDisconnecting
    /\ state.machines # {"default"}

\* C3: when a connect whose handshake resolved ends, its hostname (never
\* 'default') is in the registry and is the selected machine.
C3_ConnectedSelected ==
    (last.op = "connect" /\ last.phase = "resume" /\ last.outcome = "resolved")
    => /\ last.hostname # "default"
       /\ last.hostname \in state.machines
       /\ state.selectedMachine = last.hostname

\* a connect has just succeeded while another machine was already registered
C3_Witness ==
    /\ last.op = "connect" /\ last.phase = "resume" /\ last.outcome = "resolved"
    /\ state.selectedMachine = last.hostname
    /\ Cardinality(state.machines) = 3

\* C4: at most one connect is suspended in its handshake, over all
\* hostnames, and isConnecting is set while it is.
C4_OneConnect ==
    /\ Cardinality(Pending("connect")) <= 1
    /\ Pending("connect") # {} => state.isConnecting

\* a connect of another hostname has just been rejected during a handshake
C4_Witness ==
    /\ Rejected(last, "connect") /\ last.ret = "AlreadyConnecting"
    /\ \E t \in Pending("connect") : tasks[t].hostname # last.hostname

\* C5: at most one disconnect is suspended in its teardown, over all
\* hostnames.
C5_OneDisconnect == Cardinality(Pending("disconnect")) <= 1

\* C6 as stated: every connect called while isConnecting is set, whatever
\* its hostname, fails with 'Already connecting' and leaves the registry
\* as it was.
C6_Original ==
    [][ (state.isConnecting /\ last'.op = "connect" /\ last'.phase = "call")
        => (last'.ret = "AlreadyConnecting" /\ state'.machines = state.machines) ]_vars

\* C6 amended: every connect called while isConnecting is set is rejected
\* without a commit: with the reserved hostname error for 'default', with
\* the already connected error for a hostname of the registry, and with
\* 'Already connecting' for every other hostname.
C6_ConnectingRejects ==
    [][ (state.isConnecting /\ last'.op = "connect" /\ last'.phase = "call")
        => /\ state' = state /\ tasks' = tasks /\ last'.trans = <<>>
           /\ last'.hostname = "default" => last'.ret = "ReservedHostname"
           /\ (last'.hostname # "default" /\ last'.hostname \in state.machines)
                 => last'.ret = "AlreadyConnected"
           /\ last'.hostname \notin state.machines => last'.ret = "AlreadyConnecting" ]_vars

\* during a handshake, a connect of a registered hostname has just been
\* rejected as already connected
C6_Witness ==
    /\ state.isConnecting /\ Pending("connect") # {}
    /\ Rejected(last, "connect") /\ last.ret = "AlreadyConnected"
    /\ last.hostname \in state.machines

\* C7 as stated: after every connect that has returned to its caller,
\* rejected ones included, isConnecting is false.
C7_Original ==
    (last.op = "connect" /\ last.ret # "pending") => ~state.isConnecting

\* C7 amended: when an admitted connect ends, handshake resolved or
\* rejected, isConnecting is false; a connect rejected by an admission
\* check leaves isConnecting as it was.
C7_GateReleased ==
    [][ /\ Completed(last', "connect") => ~state'.isConnecting
        /\ Rejected(last', "connect") => state'.isConnecting = state.isConnecting ]_vars

\* a connect whose handshake was rejected has just ended
C7_Witness ==
    /\ Completed(last, "connect") /\ last.outcome = "rejected"
    /\ ~state.isConnecting

\* C8: when the handshake of an admitted connect is rejected, the step
\* that ends the connect leaves the registry, the ui list and the
\* selection as they were (after each of its commits), emits exactly
\* one notification, of level error, and ends normally.
C8_FailedConnect ==
    [][ (Completed(last', "connect") /\ last'.outcome = "rejected")
        => /\ state'.machines = state.machines
           /\ state'.ui = state.ui
           /\ state'.selectedMachine = state.selectedMachine
           /\ \A i \in DOMAIN last'.trans :
                 /\ last'.trans[i].machines = state.machines
                 /\ last'.trans[i].ui = state.ui
                 /\ last'.trans[i].selectedMachine = state.selectedMachine
           /\ last'.notes = <<"error">>
           /\ last'.ret = "resolved" ]_vars

\* a connect has just failed while another machine was registered and
\* selected, and no session of its hostname exists
C8_Witness ==
    /\ Completed(last, "connect") /\ last.outcome = "rejected"
    /\ last.hostname \notin state.machines
    /\ last.hostname \notin state.ui
    /\ state.selectedMachine \notin {"default", last.hostname}

\* C9: disconnect of a hostname that is neither 'default' nor in the
\* registry fails with the already disconnected error and changes nothing
\* (flags, registry, selection, suspended actions), with doDisconnect true
\* or false.
C9_AlreadyDisconnected ==
    [][ (last'.op = "disconnect" /\ last'.phase = "call"
           /\ last'.hostname # "default" /\ last'.hostname \notin state.machines)
        => /\ last'.ret = "AlreadyDisconnected"
           /\ last'.trans = <<>>
           /\ state' = state /\ tasks' = tasks ]_vars

\* a disconnect without teardown has just been rejected for a hostname
\* whose connect is still suspended in its handshake
C9_Witness ==
    /\ Rejected(last, "disconnect") /\ last.ret = "AlreadyDisconnected"
    /\ ~last.live
    /\ \E t \in Pending("connect") : tasks[t].hostname = last.hostname

\* C10 as stated: when a disconnect with teardown ends, teardown resolved
\* or rejected, its hostname is not in the registry, isDisconnecting is
\* false, a rejected teardown gave one warning, and if the hostname was the
\* selected machine when disconnect was called then 'default' is selected.
C10_Original ==
    (last.op = "disconnect" /\ last.phase = "resume")
    => /\ last.hostname \notin state.machines
       /\ ~state.isDisconnecting
       /\ last.outcome = "rejected" => last.notes = <<"warning">>
       /\ last.selected => state.selectedMachine = "default"

\* C10 amended: when an admitted disconnect ends, its hostname is not in
\* the registry; with teardown, isDisconnecting is false and a rejected
\* teardown gave exactly one warning; without teardown isDisconnecting is
\* as it was; 'default' is selected if the hostname is the selected machine
\* when the teardown ends, and the selection is unchanged otherwise.  A
\* disconnect without payload takes the machine selected at the call and
\* tears it down.
C10_Disconnected ==
    [][ /\ Completed(last', "disconnect")
           => /\ last'.hostname \notin state'.machines
              /\ last'.live => ~state'.isDisconnecting
              /\ ~last'.live => state'.isDisconnecting = state.isDisconnecting
              /\ (last'.live /\ last'.outcome = "rejected") => last'.notes = <<"warning">>
              /\ state'.selectedMachine =
                    IF state.selectedMachine = last'.hostname THEN "default"
                    ELSE state.selectedMachine
        /\ (last'.op = "disconnect" /\ last'.phase = "call" /\ last'.noArgs)
           => (last'.hostname = state.selectedMachine /\ last'.live) ]_vars

\* a disconnect of the machine that was selected at the call has just
\* ended after a rejected teardown: the machine is gone and 'default' is
\* selected
C10_Witness ==
    /\ Completed(last, "disconnect") /\ last.live /\ last.selected
    /\ last.outcome = "rejected" /\ last.notes = <<"warning">>
    /\ last.hostname \notin state.machines
    /\ state.selectedMachine = "default"
    /\ ~state.isDisconnecting

\* C11: of two connects of the same hostname at most one creates a session:
\* a connect called while a connect of that hostname is suspended in its
\* handshake is rejected as already connecting, a connect called for a
\* registered hostname is rejected as already connected, and a connect
\* whose handshake resolved adds its machine to a registry that did not
\* hold a machine of that hostname.
C11_OneSession ==
    [][ /\ (last'.op = "connect" /\ last'.phase = "call"
              /\ \E t \in Pending("connect") : tasks[t].hostname = last'.hostname)
           => (last'.ret = "AlreadyConnecting" /\ state' = state /\ tasks' = tasks)
        /\ (last'.op = "connect" /\ last'.phase = "call" /\ last'.hostname # "default"
              /\ last'.hostname \in state.machines)
           => (last'.ret = "AlreadyConnected" /\ state' = state /\ tasks' = tasks)
        /\ (Completed(last', "connect") /\ last'.outcome = "resolved")
           => (last'.hostname \notin state.machines
                 /\ state'.machines = state.machines \cup {last'.hostname}) ]_vars

\* a second connect of a hostname has just been rejected while the first
\* connect of that hostname is suspended in its handshake
C11_Witness ==
    /\ Rejected(last, "connect") /\ last.ret = "AlreadyConnecting"
    /\ \E t \in Pending("connect") : tasks[t].hostname = last.hostname
    /\ last.hostname \notin state.machines

\* C12: every failure of sendCode is raised to the caller as it came and
\* writes no command log entry and no notification; a DisconnectedError is
\* not logged at all, a CodeBufferError gives exactly one log entry of
\* level warning, every other error exactly one of level error.
C12_SendFailure ==
    (Completed(last, "sendCode") /\ last.outcome # "resolved")
    => /\ last.ret = last.outcome
       /\ last.codeLog = <<>>
       /\ last.notes = <<>>
       /\ last.logs = IF last.outcome = "DisconnectedError" THEN <<>>
                      ELSE IF last.outcome = "CodeBufferError" THEN <<"warning">>
                      ELSE <<"error">>

\* a sendCode has just failed with a DisconnectedError that was raised and
\* not logged, after its machine was removed from the registry
C12_Witness ==
    /\ Completed(last, "sendCode") /\ last.outcome = "DisconnectedError"
    /\ last.ret = "DisconnectedError" /\ last.logs = <<>>
    /\ last.hostname \notin state.machines

\* C13: sendCode dispatches to the machine selected when it is called, and
\* when the response arrives it writes exactly one command log entry keyed
\* by that machine and ends normally, whatever is selected by then.
C13_SendRouted ==
    [][ /\ (last'.op = "sendCode" /\ last'.phase = "call")
           => /\ last'.hostname = state.selectedMachine
              /\ \E t \in Tasks : /\ tasks[t].pc = "idle"
                                  /\ tasks'[t].pc = "sendCode"
                                  /\ tasks'[t].hostname = state.selectedMachine
        /\ \A t \in Tasks :
              (tasks[t].pc = "sendCode" /\ tasks'[t].pc = "idle" /\ last'.outcome = "resolved")
              => /\ last'.codeLog = <<tasks[t].hostname>>
                 /\ last'.logs = <<>>
                 /\ last'.ret = "resolved" ]_vars

\* a sendCode dispatched to one machine has just logged its response under
\* that machine although a connect has selected another machine meanwhile
C13_Witness ==
    /\ Completed(last, "sendCode") /\ last.outcome = "resolved"
    /\ last.codeLog = <<last.hostname>>
    /\ last.hostname \in state.machines \ {"default"}
    /\ state.selectedMachine \notin {"default", last.hostname}

\* C14: after every connect and every disconnect that has ended, the
\* hostnames held by the ui module are the hostnames of the registry other
\* than 'default'.
C14_UiMirrorsRegistry ==
    (Completed(last, "connect") \/ Completed(last, "disconnect"))
    => state.ui = state.machines \ {"default"}

\* C15: addMachine is only committed for a hostname that is not in the
\* registry, and the unregister of the routing and removeMachine are only
\* committed for a hostname that is in the registry.
C15_NoMisappliedMutation ==
    [][ /\ (Completed(last', "connect") /\ last'.outcome = "resolved")
           => last'.hostname \notin state.machines
        /\ Completed(last', "disconnect")
           => last'.hostname \in state.machines ]_vars

\* C16: when every handshake and every teardown ends, every suspended
\* connect and disconnect resumes and ends (no task stays in a connect or
\* in a disconnect for ever), a connect that ends leaves isConnecting
\* false, a disconnect that ends leaves its hostname out of the registry,
\* and neither isConnecting nor isDisconnecting stays true for ever.
C16_Progress ==
    /\ \A t \in Tasks : []<>(tasks[t].pc \notin {"connect", "disconnect"})
    /\ []<>(~state.isConnecting)
    /\ []<>(~state.isDisconnecting)
    /\ [][ /\ Completed(last', "connect") => ~state'.isConnecting
           /\ Completed(last', "disconnect") => last'.hostname \notin state'.machines ]_vars

\* every action has ended, the last one a disconnect whose teardown was
\* rejected, and both flags are false and its machine is gone
C16_Witness ==
    /\ \A t \in Tasks : tasks[t].pc = "idle"
    /\ Completed(last, "disconnect") /\ last.live /\ last.outcome = "rejected"
    /\ ~state.isConnecting /\ ~state.isDisconnecting
    /\ last.hostname \notin state.machines
    /\ state.ui # {}

\* C17: a disconnect of a registered hostname other than 'default' with
\* doDisconnect false ends in the step of its call: no task is suspended
\* (no teardown is awaited), nothing is notified, isDisconnecting is not
\* written by any of its commits, 'default' is reselected if the hostname
\* was selected, and the hostname is out of the registry after the step.
C17_FastPath ==
    [][ (last'.op = "disconnect" /\ last'.phase = "call" /\ ~last'.live
           /\ last'.hostname # "default" /\ last'.hostname \in state.machines)
        => /\ last'.ret = "resolved"
           /\ \A t \in Tasks : tasks'[t].pc = tasks[t].pc
           /\ last'.notes = <<>>
           /\ state'.isDisconnecting = state.isDisconnecting
           /\ \A i \in DOMAIN last'.trans :
                 last'.trans[i].isDisconnecting = state.isDisconnecting
           /\ last'.hostname \notin state'.machines
           /\ state'.selectedMachine =
                 IF state.selectedMachine = last'.hostname THEN "default"
                 ELSE state.selectedMachine ]_vars

\* a disconnect without teardown has just removed the selected machine
\* while no disconnect was or is suspended and isDisconnecting is false
C17_Witness ==
    /\ last.op = "disconnect" /\ last.phase = "call" /\ ~last.live
    /\ last.ret = "resolved" /\ last.selected
    /\ last.hostname \notin state.machines
    /\ state.selectedMachine = "default"
    /\ ~state.isDisconnecting /\ Pending("disconnect") = {}

\* C18: a connect whose handshake resolved adds its hostname to the
\* registry, keeps every other machine and selects its hostname; a
\* disconnect that ends for a registered hostname that is not the selected
\* one removes that hostname only and leaves the selection as it was.
C18_OthersUntouched ==
    [][ /\ (Completed(last', "connect") /\ last'.outcome = "resolved")
           => /\ state.machines \subseteq state'.machines
              /\ state'.machines \ state.machines \subseteq {last'.hostname}
              /\ state'.selectedMachine = last'.hostname
        /\ (Completed(last', "disconnect") /\ last'.hostname \in state.machines
              /\ state.selectedMachine # last'.hostname)
           => /\ state'.machines = state.machines \ {last'.hostname}
              /\ state'.selectedMachine = state.selectedMachine ]_vars

\* a disconnect has just removed a machine that was not the selected one,
\* and the selected machine, another one than 'default', is still registered
C18_Witness ==
    /\ Completed(last, "disconnect") /\ ~last.selected
    /\ last.hostname \notin state.machines
    /\ state.selectedMachine \notin {"default", last.hostname}
    /\ state.selectedMachine \in state.machines

\* C19: isDisconnecting is true in every state in which a disconnect is
\* suspended in its teardown.
C19_FlagWhileTeardown == Pending("disconnect") # {} => state.isDisconnecting

\* C20: a disconnect that ends after the machine it was admitted for has
\* been removed from the registry removes no machine and leaves the
\* selection as it was, so a machine that a later connect of the same
\* hostname added stays registered.
C20_OwnSessionOnly ==
    [][ \A t \in Tasks :
           (tasks[t].pc = "disconnect" /\ tasks[t].stale /\ tasks'[t].pc = "idle")
           => /\ state'.machines = state.machines
              /\ state'.selectedMachine = state.selectedMachine ]_vars

====
